---- MODULE Spec2Model ----
(***************************************************************************)
(* bonner-caching: a function-level disk memoization layer.                *)
(*                                                                         *)
(* Two wrapper families live in the repository:                            *)
(*   - the template-based Cacher of _cacher.py (identifier = a format      *)
(*     template filled from the bound call arguments, per-instance mode);  *)
(*   - the include/exclude Cacher of caching.py (cacher.py holds the same  *)
(*     class under the name _Cacher), whose identifier is built from the   *)
(*     function's name and its participating arguments, and whose mode is  *)
(*     the module global BONNER_CACHING_MODE.                              *)
(*                                                                         *)
(* Strings are sequences of one-character strings, so that formatting,     *)
(* replacing, joining and globbing are computed as the code computes them. *)
(* A path is a sequence of components (each a string); the filesystem is a *)
(* record of the regular files (path -> content) and the directories.      *)
(***************************************************************************)
EXTENDS Naturals, Sequences, FiniteSets, TLC

VARIABLES
    fs,                  \* the filesystem: [files: path -> content, dirs: set of paths]
    cacher,              \* the template-based Cacher object (_cacher.py), or its construction outcome
    gcacher,             \* the include/exclude Cacher object (caching.py), or its construction outcome
    BONNER_CACHING_MODE, \* caching.py's module global, read from the environment at import
    count,               \* how often the body of the wrapped function F has run (side-effect counter)
    last,                \* what the last call of the wrapped function did
    first,               \* the first call that returned: its bound arguments and its value
    store0,              \* the filesystem as the construction of the wrapper left it
    idq,                 \* the identifier builder's inputs and outputs (pure-function specification)
    threads              \* concurrent callers: each one's Cacher, call and position in wrapper

vars == <<fs, cacher, gcacher, BONNER_CACHING_MODE, count, last, first, store0, idq, threads>>

---------------------------------------------------------------------------
\* Bounds of the model.

\* Executions of the body of F per behaviour (the cap of the side-effect counter).
MaxRuns == 2
\* Artifacts present in the store before the template-based Cacher is constructed.
MaxInitFiles == 1
\* Artifacts present in the store before the include/exclude Cacher is constructed.
MaxCachedFiles == 2

---------------------------------------------------------------------------
\* Strings.

RECURSIVE Join(_, _)
\* str.join: the strings of ss with sep between them.
Join(sep, ss) ==
    IF ss = <<>> THEN <<>>
    ELSE IF Len(ss) = 1 THEN ss[1]
    ELSE ss[1] \o sep \o Join(sep, Tail(ss))

RECURSIVE SplitFrom(_, _)
\* The components of s[start..] split at "/".  Empty components are dropped, as
\* pathlib drops them ("a//b" is a/b, "a/" is a).
SplitFrom(s, start) ==
    LET slashes == {i \in start..Len(s) : s[i] = "/"}
    IN IF start > Len(s) THEN <<>>
       ELSE IF slashes = {} THEN <<SubSeq(s, start, Len(s))>>
       ELSE LET j == CHOOSE i \in slashes : \A k \in slashes : i <= k
            IN (IF j = start THEN <<>> ELSE <<SubSeq(s, start, j - 1)>>) \o SplitFrom(s, j + 1)

\* The path components of a string.
Split(s) == SplitFrom(s, 1)

\* pathlib's `root / s`: the components of s under root, or s alone when s is
\* absolute (starts with "/"): an absolute right operand replaces the left one.
PathJoin(root, s) ==
    IF s # <<>> /\ Head(s) = "/" THEN Split(s) ELSE root \o Split(s)

\* Path.parent
Parent(p) == IF p = <<>> THEN <<>> ELSE SubSeq(p, 1, Len(p) - 1)

\* The path p and every ancestor of it below the filesystem root.
Prefixes(p) == {SubSeq(p, 1, k) : k \in 1..Len(p)}

---------------------------------------------------------------------------
\* The filesystem.

EmptyFS == [files |-> <<>>, dirs |-> {}]

IsFile(f, p) == p \in DOMAIN f.files
IsDir(f, p) == p = <<>> \/ p \in f.dirs
\* Path.exists: true of regular files and of directories alike.
Exists(f, p) == IsFile(f, p) \/ IsDir(f, p)

\* Path.mkdir(parents=True, exist_ok=True): creates p and its missing ancestors;
\* fails when p or an ancestor is a regular file.
CanMkdir(f, p) == \A q \in Prefixes(p) : ~IsFile(f, q)
Mkdir(f, p) == [f EXCEPT !.dirs = @ \cup Prefixes(p)]

\* Writing a regular file at p: the parent must be a directory and p no directory.
CanWrite(f, p) == p # <<>> /\ IsDir(f, Parent(p)) /\ ~IsDir(f, p)
WriteFile(f, p, v) ==
    [f EXCEPT !.files = [q \in (DOMAIN f.files) \cup {p} |-> IF q = p THEN v ELSE f.files[q]]]

\* Path.unlink: removes a regular file; fails on a directory or a missing path.
CanUnlink(f, p) == IsFile(f, p)
Unlink(f, p) == [f EXCEPT !.files = [q \in (DOMAIN f.files) \ {p} |-> f.files[q]]]

---------------------------------------------------------------------------
\* The wrapped function F and its calls.
\*
\* F has the signature of the repository's test function, add_1(x, y="cat"):
\* one required parameter x and one defaulted parameter y.  Argument values are
\* modelled by their string forms.  F is impure: each execution yields any of
\* the Results, or raises.

Params == <<"x", "y">>
Defaults == [y \in {"y"} |-> <<"t">>]

XValues == {<<"a">>, <<"a", "/", "t">>}
YValues == {<<"t">>, <<"d">>}

\* F raising instead of returning.
FRaise == [kind |-> "raise"]
\* No execution of F.
NotRun == [kind |-> "none"]

Results == {[kind |-> "other", v |-> "v1"], [kind |-> "other", v |-> "v2"]}
FOutcomes == Results \cup {FRaise}

\* The ways of calling F: positional arguments and keyword arguments.
Calls ==
    {[args |-> <<vx>>, kwargs |-> <<>>] : vx \in XValues}
    \cup {[args |-> <<vx, vy>>, kwargs |-> <<>>] : vx \in XValues, vy \in YValues}
    \cup {[args |-> <<>>, kwargs |-> [n \in {"x", "y"} |-> IF n = "x" THEN vx ELSE vy]] :
              vx \in XValues, vy \in YValues}

\* inspect.signature(function).bind(*args, **kwargs) followed by apply_defaults():
\* positional arguments go to the parameters in order, keyword arguments by name,
\* and every parameter left unbound takes its default.
_get_args(call) ==
    LET positional == {Params[i] : i \in 1..Len(call.args)}
        index(n) == CHOOSE i \in 1..Len(Params) : Params[i] = n
    IN [n \in positional \cup DOMAIN call.kwargs \cup DOMAIN Defaults |->
            IF n \in positional THEN call.args[index(n)]
            ELSE IF n \in DOMAIN call.kwargs THEN call.kwargs[n]
            ELSE Defaults[n]]

---------------------------------------------------------------------------
\* The template-based Cacher (_cacher.py).

\* Identifier templates: sequences of literal characters and {name} fields.
FieldName == [t \in {"{x}", "{y}", "{z}"} |-> IF t = "{x}" THEN "x" ELSE IF t = "{y}" THEN "y" ELSE "z"]
Templates == {<<"{x}", "/", "t">>, <<"{z}", "/", "{y}">>}

\* A helper in the style of the class docstring: it receives the bound arguments
\* and returns the mapping the template is filled from.
helper(kwargs) == [n \in {"z", "y"} |-> IF n = "z" THEN kwargs["x"] ELSE kwargs["y"]]

\* str.format(**mapping) raises KeyError for a field the mapping lacks.
CanFormat(template, mapping) ==
    \A i \in 1..Len(template) :
        template[i] \in DOMAIN FieldName => FieldName[template[i]] \in DOMAIN mapping

RECURSIVE Format(_, _)
\* str.format(**mapping): every {name} field replaced by the value's string form.
Format(template, mapping) ==
    IF template = <<>> THEN <<>>
    ELSE (IF Head(template) \in DOMAIN FieldName
          THEN mapping[FieldName[Head(template)]]
          ELSE <<Head(template)>>) \o Format(Tail(template), mapping)

Modes == {"normal", "readonly", "overwrite", "delete", "ignore"}
\* A mode value outside the five supported ones.
UnknownMode == "bogus"

\* The handler arguments a Cacher is built with: the filetype and the save and
\* load option mappings (by their key sets).  The default is "pickle" without
\* options; the others change one of the three.
KwargsChoices ==
    {[filetype |-> "pickle", kwargs_save |-> {}, kwargs_load |-> {}],
     [filetype |-> "pickle", kwargs_save |-> {"opt"}, kwargs_load |-> {}],
     [filetype |-> "pickle", kwargs_save |-> {}, kwargs_load |-> {"opt"}],
     [filetype |-> "unknown_tag", kwargs_save |-> {}, kwargs_load |-> {}]}

\* The cache directory self.path.
CachePath == << <<"r">> >>

NoCacher == [state |-> "none"]

\* The filetype tags the handler registry knows ("pickle" is the default).
KnownFiletypes == {"pickle"}

\* get_handler(filetype): the handler of the tag; an unknown tag is an error.
get_handler(filetype) ==
    IF filetype \in KnownFiletypes THEN [ok |-> TRUE]
    ELSE [ok |-> FALSE, error |-> "ConfigurationError"]

\* Cacher.__init__: creates the cache directory, then checks the mode.  The
\* filetype is stored as it is given.
Cacher_init(f, path, identifier, hlp, filetype, mode, kwargs_save, kwargs_load) ==
    IF ~CanMkdir(f, path)
    THEN [fs |-> f, obj |-> [state |-> "failed", error |-> "FileExistsError"]]
    ELSE IF mode \notin Modes
    THEN [fs |-> Mkdir(f, path), obj |-> [state |-> "failed", error |-> "AssertionError"]]
    ELSE [fs |-> Mkdir(f, path),
          obj |-> [state |-> "ok", path |-> path, identifier |-> identifier, helper |-> hlp,
                   filetype |-> filetype, mode |-> mode,
                   kwargs_save |-> kwargs_save, kwargs_load |-> kwargs_load]]

\* Cacher._get_path: the path of the identifier when something exists there.
_get_path(c, f, identifier) ==
    LET path == PathJoin(c.path, identifier)
    IN [found |-> Exists(f, path), path |-> path]

\* The handler's save(result, path): writes the value as a regular file at path.
HandlerSave(f, path, result) ==
    IF CanWrite(f, path)
    THEN [ok |-> TRUE, fs |-> WriteFile(f, path, result), io |-> <<"save">>]
    ELSE [ok |-> FALSE, fs |-> f, io |-> <<"save">>, error |-> "OSError"]

\* The content of a file that no handler can decode.
Corrupt == [kind |-> "corrupt"]

\* The content of a file that was opened for writing and not written to its end.
Partial == [kind |-> "partial"]

\* The handler's load(path): reads the value of the regular file at path; a
\* file it cannot decode is an error, as is a path that is no regular file.
HandlerLoad(f, path) ==
    IF ~IsFile(f, path) THEN [ok |-> FALSE, io |-> <<"load">>, error |-> "OSError"]
    ELSE IF f.files[path] \in {Corrupt, Partial}
    THEN [ok |-> FALSE, io |-> <<"load">>, error |-> "CorruptArtifact"]
    ELSE [ok |-> TRUE, value |-> f.files[path], io |-> <<"load">>]

\* Mutant: the save empties the artifact's directory before it writes.
SaveClearsDirectory(c, f, result, identifier) ==
    LET path == PathJoin(c.path, identifier)
        kept == {q \in DOMAIN f.files : Parent(q) # Parent(path)}
        g == [f EXCEPT !.files = [q \in kept |-> f.files[q]]]
    IN IF ~CanMkdir(g, Parent(path))
       THEN [ok |-> FALSE, fs |-> g, io |-> <<"mkdir">>, error |-> "OSError"]
       ELSE IF ~get_handler(c.filetype).ok
       THEN [ok |-> FALSE, fs |-> Mkdir(g, Parent(path)), io |-> <<"mkdir">>,
             error |-> get_handler(c.filetype).error]
       ELSE LET w == HandlerSave(Mkdir(g, Parent(path)), path, result)
            IN [w EXCEPT !.io = <<"mkdir">> \o @]

\* Cacher._save: creates the parent directories, looks the handler up, then
\* hands the result to it.
_save(c, f, result, identifier) ==
    LET path == PathJoin(c.path, identifier)
    IN IF ~CanMkdir(f, Parent(path))
       THEN [ok |-> FALSE, fs |-> f, io |-> <<"mkdir">>, error |-> "OSError"]
       ELSE IF ~get_handler(c.filetype).ok
       THEN [ok |-> FALSE, fs |-> Mkdir(f, Parent(path)), io |-> <<"mkdir">>,
             error |-> get_handler(c.filetype).error]
       ELSE LET w == HandlerSave(Mkdir(f, Parent(path)), path, result)
            IN [w EXCEPT !.io = <<"mkdir">> \o @]

\* Cacher._load: looks the path up again, looks the handler up and hands the
\* path to it.
_load(c, f, identifier) ==
    IF ~get_handler(c.filetype).ok
    THEN [ok |-> FALSE, io |-> <<"exists">>, error |-> get_handler(c.filetype).error]
    ELSE LET r == HandlerLoad(f, _get_path(c, f, identifier).path)
         IN [r EXCEPT !.io = <<"exists">> \o @]

\* Cacher._delete: looks the path up again and unlinks it.
_delete(c, f, identifier) ==
    LET got == _get_path(c, f, identifier)
    IN IF CanUnlink(f, got.path)
       THEN [ok |-> TRUE, fs |-> Unlink(f, got.path), io |-> <<"exists", "unlink">>]
       ELSE [ok |-> FALSE, fs |-> f, io |-> <<"exists", "unlink">>, error |-> "OSError"]

---------------------------------------------------------------------------
\* What a call of the wrapped function did: the filesystem it left, whether it
\* returned or raised (value: the result, or the error's name), how often it
\* executed F, and the storage operations it performed, in order.

Returned(f, identifier, value, executed, io) ==
    [fs |-> f, outcome |-> "return", value |-> value, identifier |-> <<identifier>>,
     executed |-> executed, io |-> io]

Raised(f, identifier, error, executed, io) ==
    [fs |-> f, outcome |-> "raise", value |-> error, identifier |-> <<identifier>>,
     executed |-> executed, io |-> io]

\* `result = self._load(identifier, **self.kwargs_load)`: _load takes no keyword
\* arguments, so a non-empty kwargs_load is a TypeError at the call.
LoadResult(c, f, identifier, io) ==
    IF c.kwargs_load # {} THEN Raised(f, identifier, "TypeError", 0, io)
    ELSE LET r == _load(c, f, identifier)
         IN IF r.ok THEN Returned(f, identifier, r.value, 0, io \o r.io)
            ELSE Raised(f, identifier, r.error, 0, io \o r.io)

\* `self._save(result, identifier, **self.kwargs_save)` after F returned result:
\* _save takes no keyword arguments either.
SaveResult(c, f, identifier, result, io) ==
    IF c.kwargs_save # {} THEN Raised(f, identifier, "TypeError", 1, io)
    ELSE LET r == _save(c, f, result, identifier)
         IN IF r.ok THEN Returned(r.fs, identifier, result, 1, io \o r.io)
            ELSE Raised(r.fs, identifier, r.error, 1, io \o r.io)

\* `result = func(*args, **kwargs)` with nothing after it.
RunOnly(f, identifier, fout, io) ==
    IF fout = FRaise THEN Raised(f, identifier, "FError", 1, io)
    ELSE Returned(f, identifier, fout, 1, io)

\* Mutant: an exception of F is caught and saved as the result.
RunAndSaveStoresError(c, f, identifier, fout, io) ==
    SaveResult(c, f, identifier, fout, io)

\* `result = func(*args, **kwargs)` followed by the save.
RunAndSave(c, f, identifier, fout, io) ==
    IF fout = FRaise THEN Raised(f, identifier, "FError", 1, io)
    ELSE SaveResult(c, f, identifier, fout, io)

\* Mutant: when the load of a hit fails, the normal branch runs F and saves.
NormalBranchFallsBack(c, f, identifier, fout) ==
    IF /\ _get_path(c, f, identifier).found
       /\ LoadResult(c, f, identifier, <<"exists">>).outcome = "return"
    THEN LoadResult(c, f, identifier, <<"exists">>)
    ELSE RunAndSave(c, f, identifier, fout, <<"exists">>)

\* Mutant: the normal branch does not save what it computed.
NormalBranchNoSave(c, f, identifier, fout) ==
    IF _get_path(c, f, identifier).found
    THEN LoadResult(c, f, identifier, <<"exists">>)
    ELSE RunOnly(f, identifier, fout, <<"exists">>)

NormalBranch(c, f, identifier, fout) ==
    IF _get_path(c, f, identifier).found
    THEN LoadResult(c, f, identifier, <<"exists">>)
    ELSE RunAndSave(c, f, identifier, fout, <<"exists">>)

\* Mutant: the readonly branch saves on a miss, as the normal branch does.
ReadonlyBranchSaves(c, f, identifier, fout) ==
    IF _get_path(c, f, identifier).found
    THEN LoadResult(c, f, identifier, <<"exists">>)
    ELSE RunAndSave(c, f, identifier, fout, <<"exists">>)

ReadonlyBranch(c, f, identifier, fout) ==
    IF _get_path(c, f, identifier).found
    THEN LoadResult(c, f, identifier, <<"exists">>)
    ELSE RunOnly(f, identifier, fout, <<"exists">>)

\* Mutant: the overwrite branch keeps an artifact that is already there.
OverwriteBranchKeeps(c, f, identifier, fout) ==
    IF _get_path(c, f, identifier).found
    THEN RunOnly(f, identifier, fout, <<"exists">>)
    ELSE RunAndSave(c, f, identifier, fout, <<"exists">>)

OverwriteBranch(c, f, identifier, fout) ==
    RunAndSave(c, f, identifier, fout, <<>>)

\* Mutant: the delete branch runs F and leaves the artifact where it is.
DeleteBranchKeeps(c, f, identifier, fout) ==
    RunOnly(f, identifier, fout, <<"exists">>)

DeleteBranch(c, f, identifier, fout) ==
    IF _get_path(c, f, identifier).found
    THEN LET d == _delete(c, f, identifier)
         IN IF d.ok THEN RunOnly(d.fs, identifier, fout, <<"exists">> \o d.io)
            ELSE Raised(d.fs, identifier, d.error, 0, <<"exists">> \o d.io)
    ELSE RunOnly(f, identifier, fout, <<"exists">>)

\* Mutant: the ignore branch returns the cached value when there is one.
IgnoreBranchLoads(c, f, identifier, fout) ==
    ReadonlyBranch(c, f, identifier, fout)

IgnoreBranch(c, f, identifier, fout) ==
    RunOnly(f, identifier, fout, <<>>)

\* The mapping a template is filled from: the bound arguments, handed through
\* the helper when there is one.
TemplateArgs(hlp, call) == IF hlp THEN helper(_get_args(call)) ELSE _get_args(call)

\* The mode branches of wrapper, entered once the identifier is formatted.
ModeBranch(c, f, identifier, fout) ==
    CASE c.mode = "normal" -> NormalBranch(c, f, identifier, fout)
      [] c.mode = "readonly" -> ReadonlyBranch(c, f, identifier, fout)
      [] c.mode = "overwrite" -> OverwriteBranch(c, f, identifier, fout)
      [] c.mode = "delete" -> DeleteBranch(c, f, identifier, fout)
      [] c.mode = "ignore" -> IgnoreBranch(c, f, identifier, fout)
      [] OTHER -> Raised(f, identifier, "ValueError", 0, <<>>)

\* Mutant: F is executed before the identifier is formatted.
CacherCallRunsFirst(c, f, call, fout) ==
    IF ~CanFormat(c.identifier, TemplateArgs(c.helper, call))
    THEN [fs |-> f, outcome |-> "raise", value |-> "KeyError", identifier |-> <<>>,
          executed |-> 1, io |-> <<>>]
    ELSE ModeBranch(c, f, Format(c.identifier, TemplateArgs(c.helper, call)), fout)

\* The wrapper of Cacher.__call__: binds the arguments, formats the identifier
\* (a KeyError when the template names a field the mapping lacks) and runs the
\* branch of the mode.
Cacher_call(c, f, call, fout) ==
    IF ~CanFormat(c.identifier, TemplateArgs(c.helper, call))
    THEN [fs |-> f, outcome |-> "raise", value |-> "KeyError", identifier |-> <<>>,
          executed |-> 0, io |-> <<>>]
    ELSE ModeBranch(c, f, Format(c.identifier, TemplateArgs(c.helper, call)), fout)

---------------------------------------------------------------------------
\* The stores the program can find when it starts: what earlier runs saved.

\* The paths at which some call of F under some template stores its artifact.
ArtifactPaths ==
    {PathJoin(CachePath, Format(t, TemplateArgs(h, call))) :
        <<t, h, call>> \in {q \in Templates \X BOOLEAN \X Calls :
                               CanFormat(q[1], TemplateArgs(q[2], q[3]))}}

\* No path of S lies below another path of S.
Consistent(S) == \A p \in S, q \in S : p # q => p \notin Prefixes(q)

\* The filesystem holding exactly the artifacts of vals (path -> content).
StoreOf(vals) ==
    [files |-> vals, dirs |-> UNION {Prefixes(Parent(p)) : p \in DOMAIN vals}]

InitStores ==
    UNION {{StoreOf(vals) : vals \in [S -> Results \cup {Corrupt}]} :
              S \in {T \in SUBSET ArtifactPaths :
                        Cardinality(T) <= MaxInitFiles /\ Consistent(T)}}

NoCall == [kind |-> "none"]

---------------------------------------------------------------------------
\* Specification of the template-based Cacher: one Cacher is constructed and
\* the function it wraps is called.

InitTemplate ==
    /\ fs \in InitStores
    /\ cacher = NoCacher
    /\ gcacher = NoCacher
    /\ BONNER_CACHING_MODE = "normal"
    /\ count = 0
    /\ last = NoCall
    /\ first = <<>>
    /\ store0 = fs
    /\ idq = <<>>
    /\ threads = <<>>

\* cache = Cacher(path=..., identifier=..., helper=..., filetype=..., mode=...,
\*                kwargs_save=..., kwargs_load=...)
Construct ==
    /\ cacher.state = "none"
    /\ \E mode \in Modes \cup {UnknownMode}, identifier \in Templates, hlp \in BOOLEAN,
          k \in KwargsChoices :
       \E r \in {Cacher_init(fs, CachePath, identifier, hlp, k.filetype, mode,
                             k.kwargs_save, k.kwargs_load)} :
             /\ fs' = r.fs
             /\ cacher' = r.obj
             /\ store0' = r.fs
             /\ last' = [kind |-> "init", before |-> fs]
    /\ UNCHANGED <<gcacher, BONNER_CACHING_MODE, count, first, idq, threads>>

\* One call of the wrapped function, from its binding to its return or raise.
Call ==
    /\ cacher.state = "ok"
    /\ count < MaxRuns
    /\ \E call \in Calls, fout \in FOutcomes :
       \E r \in {Cacher_call(cacher, fs, call, fout)}, bound \in {_get_args(call)} :
             /\ fs' = r.fs
             /\ count' = count + r.executed
             /\ last' = [kind |-> "call", bound |-> bound, before |-> fs,
                         outcome |-> r.outcome, value |-> r.value,
                         identifier |-> r.identifier, executed |-> r.executed, io |-> r.io,
                         fout |-> IF r.executed = 0 THEN NotRun ELSE fout,
                         earlier |-> first]
             /\ first' = IF r.outcome = "return" /\ first = <<>>
                         THEN <<[bound |-> bound, value |-> r.value, executed |-> r.executed]>>
                         ELSE first
    /\ UNCHANGED <<cacher, gcacher, BONNER_CACHING_MODE, store0, idq, threads>>

NextTemplate == Construct \/ Call

SpecTemplate == InitTemplate /\ [][NextTemplate]_vars

---------------------------------------------------------------------------
\* The mode table of the template-based Cacher (SpecTemplate).

\* The last step was a call of the wrapped function that built its identifier.
TemplateCall(mode) ==
    /\ cacher.state = "ok"
    /\ cacher.mode = mode
    /\ last.kind = "call"
    /\ last.identifier # <<>>

\* Where the last call's artifact lives: root / identifier.
LastPath == PathJoin(cacher.path, last.identifier[1])
\* The last call found its artifact (a regular file) when it started.
HadArtifact == IsFile(last.before, LastPath)
\* The last call returned a value to its caller.
LastReturned == last.outcome = "return"
\* A call before the last one returned, and it bound the same arguments.
RepeatedCall == last.earlier # <<>> /\ last.earlier[1].bound = last.bound

\* C1: in mode normal a call that finds its artifact does not execute F, leaves
\* the store as it is and returns the stored value; a call that finds nothing at
\* its path executes F once and, when it returns, has saved the value it returns
\* at root/identifier; so a call that repeats the arguments of an earlier call
\* that returned does not execute F and returns that call's value.
NormalModeTable ==
    TemplateCall("normal") =>
        /\ HadArtifact =>
              /\ last.executed = 0
              /\ fs = last.before
              /\ LastReturned => last.value = last.before.files[LastPath]
        /\ ~Exists(last.before, LastPath) => last.executed = 1
        /\ (~HadArtifact /\ LastReturned) =>
              /\ last.executed = 1
              /\ last.value = last.fout
              /\ IsFile(fs, LastPath)
              /\ fs.files[LastPath] = last.value
        /\ RepeatedCall =>
              /\ last.executed = 0
              /\ LastReturned => last.value = last.earlier[1].value

\* C1's case: a miss that executed F and saved, then a call with the same
\* arguments that returned without executing F.
NormalMissThenHit ==
    /\ TemplateCall("normal")
    /\ RepeatedCall
    /\ last.earlier[1].executed = 1
    /\ last.executed = 0
    /\ LastReturned
    /\ count = 1

\* C3: in mode readonly no call changes the store, which stays as the
\* construction left it; a call that finds its artifact does not execute F and
\* returns the stored value; a call that finds nothing executes F once and
\* returns its result without saving it, so the artifact is still absent.
ReadonlyModeTable ==
    (cacher.state = "ok" /\ cacher.mode = "readonly") =>
        /\ fs = store0
        /\ last.kind = "call" => fs = last.before
        /\ TemplateCall("readonly") =>
              /\ HadArtifact =>
                    /\ last.executed = 0
                    /\ LastReturned => last.value = fs.files[LastPath]
              /\ ~Exists(last.before, LastPath) => last.executed = 1
              /\ (~HadArtifact /\ LastReturned) =>
                    /\ last.executed = 1
                    /\ last.value = last.fout
                    /\ ~Exists(fs, LastPath)

\* C3's cases: a readonly miss that executed F and returned, then a readonly
\* hit on an artifact that was there before the wrapper was constructed.
ReadonlyHitAndMiss ==
    /\ TemplateCall("readonly")
    /\ LastReturned
    /\ HadArtifact
    /\ last.executed = 0
    /\ last.earlier # <<>>
    /\ last.earlier[1].executed = 1
    /\ count = 1

DeleteModeTable ==
    (TemplateCall("delete") /\ LastReturned) =>
        /\ ~Exists(fs, LastPath)
        /\ last.executed = 1
        /\ last.value = last.fout
        /\ \A i \in 1..Len(last.io) : last.io[i] \notin {"save", "mkdir"}
        /\ DOMAIN fs.files = DOMAIN last.before.files \ {LastPath}

\* C5's case: a delete call that found an artifact and returned.
DeleteRemoved ==
    /\ TemplateCall("delete")
    /\ LastReturned
    /\ HadArtifact

\* C6: in mode ignore a call executes F exactly once and performs no storage
\* operation at all: the store is unchanged, and the value returned is F's
\* result, whatever the store holds.
IgnoreModeTable ==
    TemplateCall("ignore") =>
        /\ last.executed = 1
        /\ last.io = <<>>
        /\ fs = last.before
        /\ LastReturned => last.value = last.fout
        /\ last.fout # FRaise => LastReturned

\* C6's case: an ignore call returned a value other than the artifact stored
\* for its identifier.
IgnoreBypassed ==
    /\ TemplateCall("ignore")
    /\ LastReturned
    /\ HadArtifact
    /\ last.value # fs.files[LastPath]

---------------------------------------------------------------------------
\* The identifier builder of the include/exclude Cacher (caching.py; cacher.py
\* holds the same code).

\* str.replace(old, new) for one-character old and new.
Replace(s, old, new) == [i \in 1..Len(s) |-> IF s[i] = old THEN new ELSE s[i]]

\* The items of a mapping in the order of the function's parameters (a dict
\* keeps the order in which bind and apply_defaults filled it).
Items(order, call_args) == SelectSeq(order, LAMBDA n : n \in DOMAIN call_args)

\* str(Path(module) / params): the parts of both operands joined by "/".
PathStr(module, params) == Join(<<"/">>, PathJoin(Split(module), params))

\* The string form of a method's receiver is a sequence of tokens; a default
\* object representation (<m.K object at 0x...>) holds the token "object at".
ObjectAt == "object at"

\* The segments of the function's qualified name: for a method (a call that
\* binds `self`) the receiver's class name, with the receiver's string form in
\* parentheses unless that is a default object representation, goes between
\* the module and the function name.
ModuleOf(function, call_args) ==
    IF "self" \in DOMAIN call_args
    THEN LET object == call_args["self"]
             segment == IF \E i \in 1..Len(object.str) : object.str[i] = ObjectAt
                        THEN object.class_name
                        ELSE object.class_name \o <<"(">> \o object.str \o <<")">>
         IN Join(<<".">>, <<function.module, segment, function.name>>)
    ELSE Join(<<".">>, <<function.module, function.name>>)

\* The key=value list of the arguments other than `self`, in order, "/" in a
\* value's string form replaced by "_".
ParamsOf(order, call_args) ==
    LET items == SelectSeq(Items(order, call_args), LAMBDA n : n # "self")
    IN Join(<<",">>, [i \in 1..Len(items) |->
                         <<items[i]>> \o <<"=">> \o Replace(call_args[items[i]], "/", "_")])

\* create_identifier (module level): <module>.<name>/<key>=<value>,... or
\* <module>.<name>/_ when no argument is left.
create_identifier(function, call_args) ==
    LET module == ModuleOf(function, call_args)
        params == ParamsOf(function.params, call_args)
    IN IF params # <<>> THEN PathStr(module, params) ELSE PathStr(module, <<"_">>)

\* The arguments that enter the identifier: those not in exclude_args when it
\* is given, else those in include_args when it is given, else all.
FilterArgs(c, call_args) ==
    IF c.exclude_args # {}
    THEN [n \in DOMAIN call_args \ c.exclude_args |-> call_args[n]]
    ELSE IF c.include_args # {}
    THEN [n \in DOMAIN call_args \cap c.include_args |-> call_args[n]]
    ELSE call_args

\* Cacher.create_identifier: filters the bound arguments (exclude first, else
\* include), builds the identifier and appends the custom identifier.
Cacher_create_identifier(c, function, call_args) ==
    LET identifier == create_identifier(function, FilterArgs(c, call_args))
    IN IF c.custom_identifier # <<>>
       THEN identifier \o <<"_">> \o c.custom_identifier
       ELSE identifier

\* The wrapped function of the include/exclude tests: add_1(x, y=...) of module m.
Function == [module |-> <<"m">>, name |-> <<"f">>, params |-> Params]

---------------------------------------------------------------------------
\* The include/exclude Cacher (caching.py).

\* The cache directory BONNER_CACHING_HOME.
CacheHome == << <<"h">> >>

\* What F returns under this wrapper: a numpy array, a labeled array (a dataset
\* takes the same branch of save), any other object, or an object that pickle
\* cannot serialize.
CachingResults ==
    {[kind |-> k, v |-> "v1"] : k \in {"ndarray", "DataArray", "other", "unpicklable"}}
CachingOutcomes == CachingResults \cup {FRaise}

\* The calls of F under this wrapper: y omitted, passed by position and passed
\* by keyword; "*" is a value whose string form holds a glob wildcard.
CachingXValues == {<<"a">>, <<"*">>}
CachingCalls ==
    {[args |-> <<vx>>, kwargs |-> <<>>, form |-> "default"] : vx \in CachingXValues}
    \cup {[args |-> <<vx, Defaults["y"]>>, kwargs |-> <<>>, form |-> "positional"] :
              vx \in CachingXValues}
    \cup {[args |-> <<>>, form |-> "keyword",
           kwargs |-> [n \in {"x", "y"} |-> IF n = "x" THEN vx ELSE Defaults["y"]]] :
              vx \in CachingXValues}

\* The arguments a wrapper is built with: none, the repository test's
\* (exclude_args=["x"] and a custom identifier), include_args alone, and both
\* include_args and exclude_args.
CachingConfigs ==
    {[include_args |-> {}, exclude_args |-> {}, custom_identifier |-> <<>>],
     [include_args |-> {}, exclude_args |-> {"x"}, custom_identifier |-> <<"s">>],
     [include_args |-> {"x"}, exclude_args |-> {}, custom_identifier |-> <<>>],
     [include_args |-> {"x"}, exclude_args |-> {"y"}, custom_identifier |-> <<>>]}

\* Mutant: the cache directory is created before the arguments are checked.
CachingInitMkdirFirst(f, include_args, exclude_args, custom_identifier) ==
    IF ~CanMkdir(f, CacheHome)
    THEN [fs |-> f, obj |-> [state |-> "failed", error |-> "FileExistsError"]]
    ELSE IF include_args # {} /\ exclude_args # {}
    THEN [fs |-> Mkdir(f, CacheHome), obj |-> [state |-> "failed", error |-> "AssertionError"]]
    ELSE [fs |-> Mkdir(f, CacheHome),
          obj |-> [state |-> "ok", cache_dir |-> CacheHome,
                   custom_identifier |-> custom_identifier,
                   include_args |-> include_args, exclude_args |-> exclude_args]]

\* Cacher.__init__ (caching.py): asserts that include_args and exclude_args are
\* not both given, then creates the cache directory.  The mode is not looked at.
Caching_init(f, include_args, exclude_args, custom_identifier) ==
    IF include_args # {} /\ exclude_args # {}
    THEN [fs |-> f, obj |-> [state |-> "failed", error |-> "AssertionError"]]
    ELSE IF ~CanMkdir(f, CacheHome)
    THEN [fs |-> f, obj |-> [state |-> "failed", error |-> "FileExistsError"]]
    ELSE [fs |-> Mkdir(f, CacheHome),
          obj |-> [state |-> "ok", cache_dir |-> CacheHome,
                   custom_identifier |-> custom_identifier,
                   include_args |-> include_args, exclude_args |-> exclude_args]]

RECURSIVE Match(_, _)
\* fnmatch of one path component: "*" matches any run of characters.
Match(pat, name) ==
    IF pat = <<>> THEN name = <<>>
    ELSE IF Head(pat) = "*"
         THEN Match(Tail(pat), name) \/ (name # <<>> /\ Match(pat, Tail(name)))
         ELSE name # <<>> /\ Head(name) = Head(pat) /\ Match(Tail(pat), Tail(name))

\* Path.glob(pattern): the existing paths below root whose components match the
\* pattern's components one by one.
Glob(f, root, pattern) ==
    LET parts == Split(pattern)
    IN {p \in (DOMAIN f.files) \cup f.dirs :
          /\ Len(p) = Len(root) + Len(parts)
          /\ SubSeq(p, 1, Len(root)) = root
          /\ \A i \in 1..Len(parts) : Match(parts[i], p[Len(root) + i])}

\* Mutant: of several paths the identifier globs to, one is taken.
IsStoredPicksOne(c, f, identifier) ==
    IF Glob(f, c.cache_dir, identifier) # {}
    THEN [ok |-> TRUE, found |-> TRUE,
          path |-> CHOOSE q \in Glob(f, c.cache_dir, identifier) : TRUE]
    ELSE [ok |-> TRUE, found |-> FALSE]

\* Cacher.is_stored: the one path the identifier globs to, None when there is
\* none, an assertion failure when there are several.
is_stored(c, f, identifier) ==
    LET filepaths == Glob(f, c.cache_dir, identifier)
    IN IF Cardinality(filepaths) > 1
       THEN [ok |-> FALSE, error |-> "AssertionError", found |-> FALSE]
       ELSE IF Cardinality(filepaths) = 1
       THEN [ok |-> TRUE, found |-> TRUE, path |-> CHOOSE q \in filepaths : TRUE]
       ELSE [ok |-> TRUE, found |-> FALSE]

\* The file suffix Cacher.save picks from the type of the result.
SuffixOf(result) ==
    IF result.kind = "ndarray" THEN <<".", "n", "p", "y">>
    ELSE IF result.kind \in {"DataArray", "Dataset"} THEN <<".", "n", "c">>
    ELSE <<".", "p", "k", "l">>

\* The write of Cacher.save into the opened target: the file is created (or
\* truncated) by open(..., "wb"); pickle.dump of an object it cannot serialize
\* raises and leaves the file as far as it was written.
WriteResult(g, target, result) ==
    IF ~CanWrite(g, target)
    THEN [ok |-> FALSE, fs |-> g, io |-> <<"mkdir", "save">>, error |-> "OSError"]
    ELSE IF result.kind = "unpicklable"
    THEN [ok |-> FALSE, fs |-> WriteFile(g, target, Partial), io |-> <<"mkdir", "save">>,
          error |-> "PicklingError"]
    ELSE [ok |-> TRUE, fs |-> WriteFile(g, target, result), io |-> <<"mkdir", "save">>]

\* Cacher.save: creates the parent directory of cache_dir/identifier, then
\* writes the result at cache_dir/<identifier><suffix>.
save(c, f, result, identifier) ==
    IF ~CanMkdir(f, Parent(PathJoin(c.cache_dir, identifier)))
    THEN [ok |-> FALSE, fs |-> f, io |-> <<"mkdir">>, error |-> "OSError"]
    ELSE WriteResult(Mkdir(f, Parent(PathJoin(c.cache_dir, identifier))),
                     PathJoin(c.cache_dir, identifier \o SuffixOf(result)), result)

\* name ends with the suffix.
EndsWith(name, suffix) ==
    /\ Len(name) >= Len(suffix)
    /\ SubSeq(name, Len(name) - Len(suffix) + 1, Len(name)) = suffix

\* Cacher.load: looks the identifier up and reads the file by its suffix.
\* xr.load_dataarray refuses a file that holds a dataset of several variables.
load(c, f, identifier) ==
    LET st == is_stored(c, f, identifier)
    IN IF ~st.ok THEN [ok |-> FALSE, io |-> <<"glob">>, error |-> st.error]
       ELSE IF ~st.found THEN [ok |-> FALSE, io |-> <<"glob">>, error |-> "AttributeError"]
       ELSE IF ~IsFile(f, st.path) THEN [ok |-> FALSE, io |-> <<"glob", "load">>, error |-> "OSError"]
       ELSE IF /\ EndsWith(st.path[Len(st.path)], <<".", "n", "c">>)
               /\ f.files[st.path].kind = "Dataset"
       THEN [ok |-> FALSE, io |-> <<"glob", "load">>, error |-> "ValueError"]
       ELSE IF f.files[st.path] = Partial
       THEN [ok |-> FALSE, io |-> <<"glob", "load">>, error |-> "EOFError"]
       ELSE [ok |-> TRUE, io |-> <<"glob", "load">>, value |-> f.files[st.path]]

\* Cacher.delete: looks the identifier up and unlinks the file.
delete(c, f, identifier) ==
    LET st == is_stored(c, f, identifier)
    IN IF ~st.ok THEN [ok |-> FALSE, fs |-> f, io |-> <<"glob">>, error |-> st.error]
       ELSE IF ~st.found
       THEN [ok |-> FALSE, fs |-> f, io |-> <<"glob">>, error |-> "AttributeError"]
       ELSE IF ~CanUnlink(f, st.path)
       THEN [ok |-> FALSE, fs |-> f, io |-> <<"glob", "unlink">>, error |-> "OSError"]
       ELSE [ok |-> TRUE, fs |-> Unlink(f, st.path), io |-> <<"glob", "unlink">>]

\* Cacher.get_call_args: the same binding as the template-based Cacher's.
get_call_args(call) == _get_args(call)

\* `result = self.load(identifier)` after is_stored found the identifier.
CachingLoadResult(c, f, identifier, io) ==
    LET r == load(c, f, identifier)
    IN IF r.ok THEN Returned(f, identifier, r.value, 0, io \o r.io)
       ELSE Raised(f, identifier, r.error, 0, io \o r.io)

\* `result = function(*args, **kwargs)` followed by `self.save(result, identifier)`.
CachingRunAndSave(c, f, identifier, fout, io) ==
    IF fout = FRaise THEN Raised(f, identifier, "FError", 1, io)
    ELSE LET r == save(c, f, fout, identifier)
         IN IF r.ok THEN Returned(r.fs, identifier, fout, 1, io \o r.io)
            ELSE Raised(r.fs, identifier, r.error, 1, io \o r.io)

\* The branch of mode "normal": load when is_stored found the identifier, else
\* run F and save.  st is what is_stored answered.
CachingNormalBranch(c, f, identifier, fout, st) ==
    IF ~st.ok THEN Raised(f, identifier, st.error, 0, <<"glob">>)
    ELSE IF st.found THEN CachingLoadResult(c, f, identifier, <<"glob">>)
    ELSE CachingRunAndSave(c, f, identifier, fout, <<"glob">>)

\* The branch of mode "readonly": load when found, else run F and save nothing.
CachingReadonlyBranch(c, f, identifier, fout, st) ==
    IF ~st.ok THEN Raised(f, identifier, st.error, 0, <<"glob">>)
    ELSE IF st.found THEN CachingLoadResult(c, f, identifier, <<"glob">>)
    ELSE RunOnly(f, identifier, fout, <<"glob">>)

\* `self.delete(identifier)` followed by the run of F; d is what delete answered.
CachingDeleteThenRun(f, identifier, fout, d) ==
    IF d.ok THEN RunOnly(d.fs, identifier, fout, <<"glob">> \o d.io)
    ELSE Raised(d.fs, identifier, d.error, 0, <<"glob">> \o d.io)

\* The branch of mode "delete": delete when found, then run F and save nothing.
CachingDeleteBranch(c, f, identifier, fout, st) ==
    IF ~st.ok THEN Raised(f, identifier, st.error, 0, <<"glob">>)
    ELSE IF st.found THEN CachingDeleteThenRun(f, identifier, fout, delete(c, f, identifier))
    ELSE RunOnly(f, identifier, fout, <<"glob">>)

\* The body of the wrapper once the identifier is built: the branch of the
\* module's mode, a ValueError for a mode that is none of the five.
wrapper(c, mode, f, identifier, fout) ==
    CASE mode = "normal" ->
           CachingNormalBranch(c, f, identifier, fout, is_stored(c, f, identifier))
      [] mode = "readonly" ->
           CachingReadonlyBranch(c, f, identifier, fout, is_stored(c, f, identifier))
      [] mode = "overwrite" -> CachingRunAndSave(c, f, identifier, fout, <<>>)
      [] mode = "delete" ->
           CachingDeleteBranch(c, f, identifier, fout, is_stored(c, f, identifier))
      [] mode = "ignore" -> RunOnly(f, identifier, fout, <<>>)
      [] OTHER -> Raised(f, identifier, "ValueError", 0, <<>>)

\* The wrapper of Cacher.__call__ (caching.py): binds the arguments, builds the
\* identifier and runs the branch of the module's mode.
Caching_call(c, mode, f, call, fout) ==
    wrapper(c, mode, f, Cacher_create_identifier(c, Function, get_call_args(call)), fout)

---------------------------------------------------------------------------
\* Specification of the include/exclude Cacher: the module is imported with
\* some value of BONNER_CACHING_MODE in the environment, one Cacher is
\* constructed and the function it wraps is called.

\* Artifacts an earlier run of an unfiltered wrapper left in the cache.
CachingArtifacts ==
    {[path |-> PathJoin(CacheHome,
                        create_identifier(Function, get_call_args(call)) \o SuffixOf(result)),
      content |-> result] :
        call \in {k \in CachingCalls : k.form = "default"},
        result \in {k \in CachingResults : k.kind = "other"}}

CachingInitStores ==
    {StoreOf([p \in {a.path : a \in S} |-> (CHOOSE a \in S : a.path = p).content]) :
        S \in {T \in SUBSET CachingArtifacts :
                  /\ Cardinality(T) <= MaxCachedFiles
                  /\ \A a \in T, b \in T : a # b => a.path # b.path}}

InitCaching ==
    /\ fs \in CachingInitStores
    /\ cacher = NoCacher
    /\ gcacher = NoCacher
    /\ BONNER_CACHING_MODE \in Modes \cup {UnknownMode}
    /\ count = 0
    /\ last = NoCall
    /\ first = <<>>
    /\ store0 = fs
    /\ idq = <<>>
    /\ threads = <<>>

\* cache = Cacher(include_args=..., exclude_args=..., custom_identifier=...)
CachingConstruct ==
    /\ gcacher.state = "none"
    /\ \E k \in CachingConfigs :
          LET r == Caching_init(fs, k.include_args, k.exclude_args, k.custom_identifier)
          IN /\ fs' = r.fs
             /\ gcacher' = r.obj
             /\ store0' = r.fs
             /\ last' = [kind |-> "init", before |-> fs, config |-> k]
    /\ UNCHANGED <<cacher, BONNER_CACHING_MODE, count, first, idq, threads>>

\* One call of the wrapped function, from its binding to its return or raise.
CachingCall ==
    /\ gcacher.state = "ok"
    /\ count < MaxRuns
    /\ \E call \in CachingCalls, fout \in CachingOutcomes :
       \E r \in {Caching_call(gcacher, BONNER_CACHING_MODE, fs, call, fout)},
          bound \in {get_call_args(call)} :
             /\ fs' = r.fs
             /\ count' = count + r.executed
             /\ last' = [kind |-> "call", bound |-> bound, form |-> call.form, before |-> fs,
                         outcome |-> r.outcome, value |-> r.value,
                         identifier |-> r.identifier, executed |-> r.executed, io |-> r.io,
                         fout |-> IF r.executed = 0 THEN NotRun ELSE fout,
                         earlier |-> first]
             /\ first' = IF r.outcome = "return" /\ first = <<>>
                         THEN <<[bound |-> bound, executed |-> r.executed, form |-> call.form]>>
                         ELSE first
    /\ UNCHANGED <<cacher, gcacher, BONNER_CACHING_MODE, store0, idq, threads>>

NextCaching == CachingConstruct \/ CachingCall

SpecCaching == InitCaching /\ [][NextCaching]_vars

---------------------------------------------------------------------------
\* Properties of the include/exclude Cacher, stated of SpecCaching.

\* The last step was a call of the wrapped function under the given mode.
CachingCall_in(mode) == last.kind = "call" /\ BONNER_CACHING_MODE = mode

\* The last call binds the arguments of the first call that returned.
CachingRepeatedCall == last.earlier # <<>> /\ last.earlier[1].bound = last.bound

\* C2 (as stated; the code violates it): in mode normal, after a call that
\* executed F and saved its result, is_stored of the call's identifier finds
\* the artifact save wrote, holding the saved value; and a later call with
\* equal bound arguments returns without executing F.
SavedArtifactIsFound ==
    /\ (CachingCall_in("normal") /\ last.outcome = "return" /\ last.executed = 1) =>
          \E st \in {is_stored(gcacher, fs, last.identifier[1])} :
             /\ st.ok
             /\ st.found
             /\ IsFile(fs, st.path)
             /\ fs.files[st.path] = last.value
    /\ (CachingCall_in("normal") /\ last.outcome = "return" /\ CachingRepeatedCall) =>
          last.executed = 0

\* C7 (as stated; the code violates it): with a mode that is none of the five,
\* no wrapper is constructed, and no call ends in the unknown-mode error.
UnknownModeFailsAtConstruction ==
    /\ BONNER_CACHING_MODE \notin Modes => gcacher.state # "ok"
    /\ ~(last.kind = "call" /\ last.outcome = "raise" /\ last.value = "ValueError")

\* C8: a construction with both include_args and exclude_args given fails with
\* the assertion and leaves the filesystem as it was; a wrapper that exists
\* (and so every call) has at most one of the two.
BothFiltersFailAtConstruction ==
    /\ (/\ last.kind = "init"
        /\ last.config.include_args # {}
        /\ last.config.exclude_args # {}) =>
          /\ gcacher.state = "failed"
          /\ gcacher.error = "AssertionError"
          /\ fs = last.before
    /\ gcacher.state = "ok" => (gcacher.include_args = {} \/ gcacher.exclude_args = {})

\* C8 witness: such a construction was attempted where the cache directory did
\* not exist, and it still does not exist.
BothFiltersRejected ==
    /\ last.kind = "init"
    /\ last.config.include_args # {}
    /\ last.config.exclude_args # {}
    /\ gcacher.state = "failed"
    /\ ~IsDir(last.before, CacheHome)
    /\ ~IsDir(fs, CacheHome)

\* C10 (as stated; the code violates it): the identifier of a call depends only
\* on the arguments it binds, whatever the form of the call; and in mode normal
\* a returning call that binds the arguments of an earlier returning call made
\* in another form does not execute F.
EquivalentCallsHit ==
    /\ gcacher.state = "ok" =>
          \A c1 \in CachingCalls, c2 \in CachingCalls :
             get_call_args(c1) = get_call_args(c2) =>
                Cacher_create_identifier(gcacher, Function, get_call_args(c1))
                   = Cacher_create_identifier(gcacher, Function, get_call_args(c2))
    /\ (/\ CachingCall_in("normal")
        /\ last.outcome = "return"
        /\ CachingRepeatedCall
        /\ last.earlier[1].form # last.form) => last.executed = 0

---------------------------------------------------------------------------
\* Specification of the identifier builder: a wrapper and two calls of the
\* function it wraps are drawn, and the identifiers of both calls are built.

\* Argument values: strings over letters and the characters "/", "_", ","
\* and "=".
IdValues ==
    {<<>>, <<"a">>, <<"/">>, <<"_">>, <<",">>, <<"=">>, <<",", "y", "=">>}

IdCalls == {[args |-> <<vx, vy>>, kwargs |-> <<>>] : vx \in IdValues, vy \in IdValues}

\* The wrappers that can be constructed.
IdCachers ==
    {r.obj : r \in {q \in {Caching_init(EmptyFS, k.include_args, k.exclude_args,
                                          k.custom_identifier) : k \in CachingConfigs} :
                       q.obj.state = "ok"}}

InitIdentifier ==
    /\ fs = EmptyFS
    /\ cacher = NoCacher
    /\ gcacher \in IdCachers
    /\ BONNER_CACHING_MODE = "normal"
    /\ count = 0
    /\ last = NoCall
    /\ first = <<>>
    /\ store0 = fs
    /\ idq \in {<<[call_args |-> <<get_call_args(c1), get_call_args(c2)>>,
                   built |-> FALSE, identifier |-> <<>>]>> :
                  c1 \in IdCalls, c2 \in IdCalls}
    /\ threads = <<>>

\* identifier = self.create_identifier(function, call_args), for both calls.
CreateIdentifiers ==
    /\ idq # <<>>
    /\ ~idq[1].built
    /\ idq' = <<[idq[1] EXCEPT
                   !.built = TRUE,
                   !.identifier =
                       <<Cacher_create_identifier(gcacher, Function, idq[1].call_args[1]),
                         Cacher_create_identifier(gcacher, Function, idq[1].call_args[2])>>]>>
    /\ UNCHANGED <<fs, cacher, gcacher, BONNER_CACHING_MODE, count, last, first, store0, threads>>

NextIdentifier == CreateIdentifiers

SpecIdentifier == InitIdentifier /\ [][NextIdentifier]_vars

\* The identifiers of both calls have been built.
Built == idq # <<>> /\ idq[1].built

\* The arguments of call i that enter the identifier.
Participating(i) == FilterArgs(gcacher, idq[1].call_args[i])

\* The values of a mapping with every "/" turned into "_".
Slashless(mapping) == [n \in DOMAIN mapping |-> Replace(mapping[n], "/", "_")]

\* No value of the mapping holds a comma.
CommaFree(mapping) ==
    \A n \in DOMAIN mapping : \A i \in 1..Len(mapping[n]) : mapping[n][i] # ","

\* C9 (as stated; the code violates it): equal participating arguments give
\* equal identifiers, and participating arguments that differ in some value
\* give different identifiers.
IdentifierInjective ==
    Built =>
       /\ Participating(1) = Participating(2) => idq[1].identifier[1] = idq[1].identifier[2]
       /\ Participating(1) # Participating(2) => idq[1].identifier[1] # idq[1].identifier[2]

\* What the builder does keep apart: participating arguments without commas
\* that still differ in some value once every "/" is read as "_".
IdentifierInjectiveUpToSlash ==
    Built =>
       /\ Participating(1) = Participating(2) => idq[1].identifier[1] = idq[1].identifier[2]
       /\ (/\ CommaFree(Participating(1))
           /\ CommaFree(Participating(2))
           /\ Slashless(Participating(1)) # Slashless(Participating(2))) =>
             idq[1].identifier[1] # idq[1].identifier[2]

---------------------------------------------------------------------------
\* Filtered identifiers (SpecCaching) and missing template fields (SpecTemplate).

\* C11 (as stated; the code violates it): the identifiers of two calls are
\* equal exactly when their participating arguments are equal; and in mode
\* normal a returning call whose identifier is that of an earlier returning
\* call does not execute F.
FilteredCallsShareArtifact ==
    /\ gcacher.state = "ok" =>
          \A c1 \in CachingCalls, c2 \in CachingCalls :
             (FilterArgs(gcacher, get_call_args(c1)) = FilterArgs(gcacher, get_call_args(c2)))
             <=> (Cacher_create_identifier(gcacher, Function, get_call_args(c1))
                     = Cacher_create_identifier(gcacher, Function, get_call_args(c2)))
    /\ (/\ CachingCall_in("normal")
        /\ last.outcome = "return"
        /\ last.earlier # <<>>
        /\ Cacher_create_identifier(gcacher, Function, last.earlier[1].bound)
              = last.identifier[1]) => last.executed = 0

\* The mapping the template of the last call was filled from.
LastMapping == IF cacher.helper THEN helper(last.bound) ELSE last.bound

\* C12: a call whose template names a field the mapping lacks raises KeyError
\* without executing F and without any storage operation, in every mode.
MissingFieldFailsFirst ==
    (last.kind = "call" /\ ~CanFormat(cacher.identifier, LastMapping)) =>
       /\ last.outcome = "raise"
       /\ last.value = "KeyError"
       /\ last.executed = 0
       /\ last.io = <<>>
       /\ fs = last.before

\* C12 witness: such a call was made in mode overwrite on a store that holds
\* an artifact.
MissingFieldRejected ==
    /\ last.kind = "call"
    /\ ~CanFormat(cacher.identifier, LastMapping)
    /\ cacher.mode = "overwrite"
    /\ DOMAIN fs.files # {}
    /\ last.value = "KeyError"

---------------------------------------------------------------------------
\* Handlers and their options (SpecTemplate).

\* C13 (as stated; the code violates it): a Cacher with a filetype the registry
\* does not know is not constructed, and no call executes F and then fails
\* because the handler cannot be looked up.
HandlerResolvedAtConstruction ==
    /\ cacher.state = "ok" => cacher.filetype \in KnownFiletypes
    /\ ~(/\ last.kind = "call"
         /\ last.outcome = "raise"
         /\ last.value = "ConfigurationError"
         /\ last.executed = 1)

\* C14 (as stated; the code violates it): with save or load options given, a
\* call follows the mode table as without them: no call ends in the TypeError
\* of an unexpected keyword argument, a normal-mode miss that executed F
\* returns its result, and a normal-mode hit on a stored artifact returns it.
OptionsForwarded ==
    /\ ~(last.kind = "call" /\ last.outcome = "raise" /\ last.value = "TypeError")
    /\ (/\ TemplateCall("normal")
        /\ cacher.kwargs_save # {}
        /\ cacher.filetype \in KnownFiletypes
        /\ last.executed = 1
        /\ last.fout # FRaise
        /\ CanWrite(Mkdir(last.before, Parent(LastPath)), LastPath)) => LastReturned
    /\ (/\ TemplateCall("normal")
        /\ cacher.kwargs_load # {}
        /\ cacher.filetype \in KnownFiletypes
        /\ IsFile(last.before, LastPath)) => (LastReturned /\ last.value = fs.files[LastPath])

---------------------------------------------------------------------------
\* Errors of F and of the handler's load (SpecTemplate).

\* C15: when F raises, in any mode, the call raises F's error, having executed
\* F once and saved nothing: where nothing existed at the identifier's path
\* nothing exists after the call, no file of the store changed its content,
\* and in mode overwrite an artifact that was there is there unchanged.
FErrorPropagates ==
    (last.kind = "call" /\ last.fout = FRaise) =>
       /\ last.outcome = "raise"
       /\ last.value = "FError"
       /\ last.executed = 1
       /\ \A i \in 1..Len(last.io) : last.io[i] # "save"
       /\ ~Exists(last.before, LastPath) => ~Exists(fs, LastPath)
       /\ \A p \in DOMAIN fs.files :
             p \in DOMAIN last.before.files /\ fs.files[p] = last.before.files[p]
       /\ (cacher.mode = "overwrite" /\ HadArtifact) =>
             (IsFile(fs, LastPath) /\ fs.files[LastPath] = last.before.files[LastPath])

\* C15 witness: F raised in mode overwrite where an artifact was stored.
FRaisedOnOverwrite ==
    /\ TemplateCall("overwrite")
    /\ last.fout = FRaise
    /\ HadArtifact
    /\ last.value = "FError"

\* The last call was a hit (something existed at its identifier's path) whose
\* load the handler failed.
LoadFailed ==
    /\ TemplateCall("normal") \/ TemplateCall("readonly")
    /\ Exists(last.before, LastPath)
    /\ last.outcome = "raise"
    /\ last.value \in {"CorruptArtifact", "OSError"}

\* C16: when the handler's load fails on a hit in mode normal or readonly, the
\* call raises the handler's error without executing F and leaves the
\* filesystem as it was; a further call with the same arguments raises the
\* same error without executing F, whatever F would do.
LoadErrorPropagates ==
    LoadFailed =>
       /\ last.executed = 0
       /\ last.fout = NotRun
       /\ fs = last.before
       /\ \A fout \in FOutcomes :
             \E r \in {Cacher_call(cacher, fs, [args |-> <<>>, kwargs |-> last.bound], fout)} :
                r.outcome = "raise" /\ r.value = last.value /\ r.executed = 0 /\ r.fs = fs

\* C16 witness: the load of a corrupt artifact failed in mode normal.
CorruptArtifactHit ==
    /\ TemplateCall("normal")
    /\ LoadFailed
    /\ IsFile(fs, LastPath)
    /\ fs.files[LastPath] = Corrupt
    /\ last.value = "CorruptArtifact"

---------------------------------------------------------------------------
\* Failed saves and ambiguous lookups of the include/exclude Cacher (SpecCaching).

\* C17 (as stated; the code violates it): a save that fails leaves no partially
\* written artifact: no file of the store is one.
FailedSaveLeavesNothing ==
    \A p \in DOMAIN fs.files : fs.files[p] # Partial

\* The last call was made in a mode that looks the identifier up, and more
\* than one stored path matched it.
AmbiguousLookup ==
    /\ last.kind = "call"
    /\ BONNER_CACHING_MODE \in {"normal", "readonly", "delete"}
    /\ Cardinality(Glob(last.before, gcacher.cache_dir, last.identifier[1])) > 1

\* C18: a call in mode normal, readonly or delete whose identifier matches more
\* than one stored path raises the assertion of is_stored: F is not executed,
\* the lookup is the call's only storage operation and the filesystem is as
\* it was.
AmbiguousLookupFails ==
    AmbiguousLookup =>
       /\ last.outcome = "raise"
       /\ last.value = "AssertionError"
       /\ last.executed = 0
       /\ last.io = <<"glob">>
       /\ fs = last.before

\* C18 witness: such a call was made in mode delete.
AmbiguousLookupRejected ==
    /\ AmbiguousLookup
    /\ BONNER_CACHING_MODE = "delete"
    /\ last.value = "AssertionError"

---------------------------------------------------------------------------
\* Concurrent callers of the template-based Cacher: two threads call the
\* wrapped function through Cachers on the same cache directory.  A step of a
\* thread is one access to the store or one execution of F; the steps of the
\* two threads interleave in any order.  The handler writes the artifact in
\* place, as the reference behaviour does: it opens the file, then writes it.

Threads == {"t1", "t2"}

\* The modes whose branches look an artifact up or save one.
ConcurrentModes == {"normal", "readonly", "overwrite"}

\* The calls the threads make: add_1(x).
ConcurrentCalls == {[args |-> <<vx>>, kwargs |-> <<>>] : vx \in XValues}

\* The identifier template of the threads' Cachers.
ConcurrentTemplate == <<"{x}", "/", "t">>

\* The stores the threads can find: nothing, or the artifact of one of the calls.
ConcurrentStores ==
    {StoreOf(vals) :
        vals \in UNION {[S -> Results \cup {Corrupt}] :
                           S \in {T \in SUBSET {PathJoin(CachePath,
                                                   Format(ConcurrentTemplate, _get_args(call))) :
                                                   call \in ConcurrentCalls} : Consistent(T)}}}

\* The handler's save, first half: the file at path is opened for writing, which
\* creates it empty or truncates what it held.
HandlerSaveOpen(f, path) ==
    IF CanWrite(f, path)
    THEN [ok |-> TRUE, fs |-> WriteFile(f, path, Partial)]
    ELSE [ok |-> FALSE, fs |-> f, error |-> "OSError"]

\* Mutant: the file a save writes is named after the result as well.
SavePathByResult(c, identifier, result) ==
    PathJoin(c.path, identifier \o <<".", result.v>>)

\* _save: `path = self.path / identifier`, whatever the result is.
SavePath(c, identifier, result) == PathJoin(c.path, identifier)

\* A thread that has not entered the wrapper yet.
Entering(c, call) ==
    [c |-> c, call |-> call, pc |-> "enter", identifier |-> <<>>, result |-> NotRun,
     outcome |-> "none", value |-> NotRun, hit |-> FALSE]

\* No save has put an artifact in place yet.
NoSaves == [kind |-> "race", saved |-> <<>>]

InitConcurrent ==
    /\ \E f0 \in ConcurrentStores :
       \E r \in {Cacher_init(f0, CachePath, ConcurrentTemplate, FALSE, "pickle", "normal",
                             {}, {})} :
          /\ r.obj.state = "ok"
          /\ fs = r.fs
          /\ store0 = r.fs
          /\ threads \in {[t \in Threads |-> Entering([r.obj EXCEPT !.mode = m[t]], k[t])] :
                             m \in [Threads -> ConcurrentModes],
                             k \in [Threads -> ConcurrentCalls]}
    /\ cacher = NoCacher
    /\ gcacher = NoCacher
    /\ BONNER_CACHING_MODE = "normal"
    /\ count = 0
    /\ last = NoSaves
    /\ first = <<>>
    /\ idq = <<>>

\* The thread's position and what it holds change; the store does not.
Step(t, rec) ==
    /\ threads' = [threads EXCEPT ![t] = rec]
    /\ UNCHANGED <<fs, cacher, gcacher, BONNER_CACHING_MODE, count, last, first, store0, idq>>

\* The thread's position changes and the store becomes f.
StoreStep(t, rec, f) ==
    /\ threads' = [threads EXCEPT ![t] = rec]
    /\ fs' = f
    /\ UNCHANGED <<cacher, gcacher, BONNER_CACHING_MODE, count, last, first, store0, idq>>

\* wrapper up to the branch of the mode: the arguments are bound, the
\* identifier formatted, and `if self._get_path(identifier)` is evaluated
\* (modes normal and readonly).
WrapperCheck(t) ==
    /\ threads[t].pc = "enter"
    /\ \E th \in {threads[t]} :
       \E identifier \in {Format(th.c.identifier, TemplateArgs(th.c.helper, th.call))} :
          Step(t, [th EXCEPT !.identifier = identifier,
                             !.pc = IF th.c.mode = "overwrite" THEN "run"
                                    ELSE IF _get_path(th.c, fs, identifier).found THEN "load"
                                    ELSE "run",
                             !.hit = th.c.mode # "overwrite"
                                     /\ _get_path(th.c, fs, identifier).found])

\* `result = self._load(identifier, **self.kwargs_load)` and the return.
WrapperLoad(t) ==
    /\ threads[t].pc = "load"
    /\ \E th \in {threads[t]} :
       \E r \in {LoadResult(th.c, fs, th.identifier, <<>>)} :
          Step(t, [th EXCEPT !.pc = "done", !.outcome = r.outcome, !.value = r.value])

\* `result = func(*args, **kwargs)`: F returns a result or raises; mode
\* readonly returns the result without saving it.
WrapperRun(t) ==
    /\ threads[t].pc = "run"
    /\ \E th \in {threads[t]}, fout \in FOutcomes :
          /\ threads' = [threads EXCEPT ![t] =
                 IF fout = FRaise
                 THEN [th EXCEPT !.pc = "done", !.outcome = "raise", !.value = "FError"]
                 ELSE IF th.c.mode = "readonly"
                 THEN [th EXCEPT !.pc = "done", !.outcome = "return", !.value = fout,
                                 !.result = fout]
                 ELSE [th EXCEPT !.pc = "mkdir", !.result = fout]]
          /\ count' = count + 1
          /\ UNCHANGED <<fs, cacher, gcacher, BONNER_CACHING_MODE, last, first, store0, idq>>

\* _save: `path.parent.mkdir(parents=True, exist_ok=True)`.
SaveMkdir(t) ==
    /\ threads[t].pc = "mkdir"
    /\ \E th \in {threads[t]} :
       \E dir \in {Parent(PathJoin(th.c.path, th.identifier))} :
          IF CanMkdir(fs, dir)
          THEN StoreStep(t, [th EXCEPT !.pc = "open"], Mkdir(fs, dir))
          ELSE Step(t, [th EXCEPT !.pc = "done", !.outcome = "raise", !.value = "OSError"])

\* _save: handler.save opens the file.
SaveOpen(t) ==
    /\ threads[t].pc = "open"
    /\ \E th \in {threads[t]} :
       \E r \in {HandlerSaveOpen(fs, SavePath(th.c, th.identifier, th.result))} :
          IF r.ok
          THEN StoreStep(t, [th EXCEPT !.pc = "write"], r.fs)
          ELSE Step(t, [th EXCEPT !.pc = "done", !.outcome = "raise", !.value = r.error])

\* _save: handler.save writes the result into the file; the wrapper returns
\* the result.
SaveWrite(t) ==
    /\ threads[t].pc = "write"
    /\ \E th \in {threads[t]} :
       \E r \in {HandlerSave(fs, SavePath(th.c, th.identifier, th.result), th.result)} :
          /\ fs' = r.fs
          /\ threads' = [threads EXCEPT ![t] =
                 IF r.ok THEN [th EXCEPT !.pc = "done", !.outcome = "return",
                                         !.value = th.result]
                 ELSE [th EXCEPT !.pc = "done", !.outcome = "raise", !.value = r.error]]
          /\ last' = IF r.ok
                     THEN [last EXCEPT !.saved = Append(@, [by |-> t, value |-> th.result])]
                     ELSE last
          /\ UNCHANGED <<cacher, gcacher, BONNER_CACHING_MODE, count, first, store0, idq>>

NextConcurrent ==
    \E t \in Threads :
        \/ WrapperCheck(t)
        \/ WrapperLoad(t)
        \/ WrapperRun(t)
        \/ SaveMkdir(t)
        \/ SaveOpen(t)
        \/ SaveWrite(t)

SpecConcurrent == InitConcurrent /\ [][NextConcurrent]_vars

---------------------------------------------------------------------------
\* Two normal-mode callers of one identifier (SpecConcurrent).

\* The path of the artifact of thread t's call.
ThreadPath(t) ==
    PathJoin(threads[t].c.path,
             Format(threads[t].c.identifier, TemplateArgs(threads[t].c.helper, threads[t].call)))

\* Both threads are in mode normal, make the same call, started on a store
\* with nothing at the identifier's path, and have returned.
BothNormalReturned ==
    /\ \A t \in Threads : /\ threads[t].c.mode = "normal"
                          /\ threads[t].pc = "done"
                          /\ threads[t].outcome = "return"
    /\ threads["t1"].call = threads["t2"].call
    /\ ~Exists(store0, ThreadPath("t1"))

\* C19: when two concurrent normal-mode calls with the same identifier, started
\* on a store without the artifact, have both returned, the store holds exactly
\* one file more than at the start, the artifact at the identifier's path, and
\* its content is the result of the save that was completed last.
LastWriterWins ==
    BothNormalReturned =>
        /\ last.saved # <<>>
        /\ DOMAIN fs.files = DOMAIN store0.files \cup {ThreadPath("t1")}
        /\ fs.files[ThreadPath("t1")] = last.saved[Len(last.saved)].value

\* Both threads observed Miss, both executed F with different results, both
\* saved and both returned.
BothMissedAndSaved ==
    /\ BothNormalReturned
    /\ \A t \in Threads : ~threads[t].hit
    /\ count = 2
    /\ Len(last.saved) = 2
    /\ last.saved[1].value # last.saved[2].value
    /\ threads["t1"].value # threads["t2"].value

---------------------------------------------------------------------------
\* Concurrent callers of the include/exclude Cacher (caching.py): two threads
\* of one process call the wrapped function through one Cacher; the mode is the
\* module's.  Cacher.save writes the artifact where is_stored looks for it:
\* open(..., "wb") creates or truncates the file, the dump fills it.

\* A thread that has not entered the wrapper of caching.py yet.
CachingEntering(call) ==
    [call |-> call, pc |-> "enter", identifier |-> <<>>, result |-> NotRun,
     outcome |-> "none", value |-> NotRun, hit |-> FALSE, loaded |-> NotRun]

InitConcurrentCaching ==
    /\ \E f0 \in CachingInitStores, k \in CachingConfigs :
       \E r \in {Caching_init(f0, k.include_args, k.exclude_args, k.custom_identifier)} :
          /\ r.obj.state = "ok"
          /\ fs = r.fs
          /\ store0 = r.fs
          /\ gcacher = r.obj
    /\ threads \in [Threads -> {CachingEntering(call) :
                                   call \in {k \in CachingCalls : k.form = "default"}}]
    /\ cacher = NoCacher
    /\ BONNER_CACHING_MODE \in ConcurrentModes
    /\ count = 0
    /\ last = NoSaves
    /\ first = <<>>
    /\ idq = <<>>

\* The thread has raised the error.
Failed(th, error) == [th EXCEPT !.pc = "done", !.outcome = "raise", !.value = error]

\* wrapper up to the branch of the mode: the arguments are bound, the
\* identifier built, and `if self.is_stored(identifier)` is evaluated (modes
\* normal and readonly).
CachingEnter(t) ==
    /\ threads[t].pc = "enter"
    /\ \E th \in {threads[t]} :
       \E identifier \in {Cacher_create_identifier(gcacher, Function,
                                                   get_call_args(th.call))} :
       \E st \in {is_stored(gcacher, fs, identifier)} :
          Step(t, IF BONNER_CACHING_MODE = "overwrite"
                  THEN [th EXCEPT !.identifier = identifier, !.pc = "run"]
                  ELSE IF ~st.ok THEN Failed([th EXCEPT !.identifier = identifier], st.error)
                  ELSE [th EXCEPT !.identifier = identifier, !.hit = st.found,
                                  !.pc = IF st.found THEN "load" ELSE "run"])

\* `result = self.load(identifier)` and the return; loaded is the content of
\* the file the load read, if it got that far.
CachingLoad(t) ==
    /\ threads[t].pc = "load"
    /\ \E th \in {threads[t]} :
       \E r \in {load(gcacher, fs, th.identifier)},
          st \in {is_stored(gcacher, fs, th.identifier)} :
          Step(t, [(IF r.ok THEN [th EXCEPT !.pc = "done", !.outcome = "return",
                                            !.value = r.value]
                    ELSE Failed(th, r.error))
                   EXCEPT !.loaded = IF st.ok /\ st.found /\ IsFile(fs, st.path)
                                      THEN fs.files[st.path] ELSE NotRun])

\* `result = function(*args, **kwargs)`: F returns a result or raises; mode
\* readonly returns the result without saving it.
CachingRun(t) ==
    /\ threads[t].pc = "run"
    /\ \E th \in {threads[t]}, fout \in CachingOutcomes :
          /\ threads' = [threads EXCEPT ![t] =
                 IF fout = FRaise THEN Failed(th, "FError")
                 ELSE IF BONNER_CACHING_MODE = "readonly"
                 THEN [th EXCEPT !.pc = "done", !.outcome = "return", !.value = fout,
                                 !.result = fout]
                 ELSE [th EXCEPT !.pc = "mkdir", !.result = fout]]
          /\ count' = count + 1
          /\ UNCHANGED <<fs, cacher, gcacher, BONNER_CACHING_MODE, last, first, store0, idq>>

\* save: `filepath.parent.mkdir(parents=True, exist_ok=True)`.
CachingSaveMkdir(t) ==
    /\ threads[t].pc = "mkdir"
    /\ \E th \in {threads[t]} :
       \E dir \in {Parent(PathJoin(gcacher.cache_dir, th.identifier))} :
          IF CanMkdir(fs, dir)
          THEN StoreStep(t, [th EXCEPT !.pc = "open"], Mkdir(fs, dir))
          ELSE Step(t, Failed(th, "OSError"))

\* The file thread record th saves to.
SaveTarget(th) == PathJoin(gcacher.cache_dir, th.identifier \o SuffixOf(th.result))

\* save: the target is opened for writing, which creates it empty or truncates
\* what it held.
OpenTarget(f, target) ==
    IF CanWrite(f, target)
    THEN [ok |-> TRUE, fs |-> WriteFile(f, target, Partial)]
    ELSE [ok |-> FALSE, fs |-> f, error |-> "OSError"]

CachingSaveOpen(t) ==
    /\ threads[t].pc = "open"
    /\ \E th \in {threads[t]} :
       \E r \in {OpenTarget(fs, SaveTarget(th))} :
          IF r.ok
          THEN StoreStep(t, [th EXCEPT !.pc = "dump"], r.fs)
          ELSE Step(t, Failed(th, r.error))

\* save: the result is written into the opened file; the wrapper returns it.
CachingSaveDump(t) ==
    /\ threads[t].pc = "dump"
    /\ \E th \in {threads[t]} :
       \E r \in {WriteResult(fs, SaveTarget(th), th.result)} :
          /\ fs' = r.fs
          /\ threads' = [threads EXCEPT ![t] =
                 IF r.ok THEN [th EXCEPT !.pc = "done", !.outcome = "return",
                                         !.value = th.result]
                 ELSE Failed(th, r.error)]
          /\ last' = IF r.ok
                     THEN [last EXCEPT !.saved = Append(@, [by |-> t, value |-> th.result])]
                     ELSE last
          /\ UNCHANGED <<cacher, gcacher, BONNER_CACHING_MODE, count, first, store0, idq>>

NextConcurrentCaching ==
    \E t \in Threads :
        \/ CachingEnter(t)
        \/ CachingLoad(t)
        \/ CachingRun(t)
        \/ CachingSaveMkdir(t)
        \/ CachingSaveOpen(t)
        \/ CachingSaveDump(t)

SpecConcurrentCaching == InitConcurrentCaching /\ [][NextConcurrentCaching]_vars

\* C20 (as stated; the code violates it): a call in mode normal or readonly
\* never loads a partially written artifact: the file its load reads holds a
\* complete value.
NeverLoadsPartial ==
    BONNER_CACHING_MODE \in {"normal", "readonly"} =>
        \A t \in Threads : threads[t].loaded # Partial

---------------------------------------------------------------------------
\* Specification of the identifier builder for method calls: a wrapper and a
\* call of a method it wraps are drawn, and the call's identifier is built.

\* The wrapped method: K.g(self, x, y) of module m.
Method == [module |-> <<"m">>, name |-> <<"g">>, params |-> <<"self", "x", "y">>]

\* The receivers: an object whose str() is the default representation and one
\* whose class defines a string form.
Receivers ==
    {[class_name |-> <<"K">>, str |-> <<"<", "m", ".", "K", " ", ObjectAt, " ", "0", ">">>],
     [class_name |-> <<"K">>, str |-> <<"o">>]}

\* inspect.signature(function).bind(self, x, y): the receiver is bound as `self`.
MethodCallArgs ==
    {[n \in {"self", "x", "y"} |-> IF n = "self" THEN recv ELSE IF n = "x" THEN vx ELSE vy] :
        recv \in Receivers, vx \in IdValues, vy \in IdValues}

\* The arguments the wrappers of methods are built with: no filter, include
\* and exclude lists that name parameters of the call.
MethodConfigs ==
    {[include_args |-> {}, exclude_args |-> {}, custom_identifier |-> <<>>],
     [include_args |-> {"x"}, exclude_args |-> {}, custom_identifier |-> <<>>],
     [include_args |-> {"self", "x"}, exclude_args |-> {}, custom_identifier |-> <<>>],
     [include_args |-> {}, exclude_args |-> {"y"}, custom_identifier |-> <<>>],
     [include_args |-> {}, exclude_args |-> {"y"}, custom_identifier |-> <<"s">>]}

InitMethod ==
    /\ fs = EmptyFS
    /\ cacher = NoCacher
    /\ gcacher \in {Caching_init(EmptyFS, k.include_args, k.exclude_args,
                                 k.custom_identifier).obj : k \in MethodConfigs}
    /\ BONNER_CACHING_MODE = "normal"
    /\ count = 0
    /\ last = NoCall
    /\ first = <<>>
    /\ store0 = fs
    /\ idq \in {<<[call_args |-> <<bound>>, built |-> FALSE, identifier |-> <<>>]>> :
                  bound \in MethodCallArgs}
    /\ threads = <<>>

\* identifier = self.create_identifier(function, call_args) for the method call.
CreateMethodIdentifier ==
    /\ idq # <<>>
    /\ ~idq[1].built
    /\ idq' = <<[idq[1] EXCEPT
                   !.built = TRUE,
                   !.identifier =
                       <<Cacher_create_identifier(gcacher, Method, idq[1].call_args[1])>>]>>
    /\ UNCHANGED <<fs, cacher, gcacher, BONNER_CACHING_MODE, count, last, first, store0, threads>>

NextMethod == CreateMethodIdentifier

SpecMethod == InitMethod /\ [][NextMethod]_vars

\* s starts with the sequence prefix.
StartsWith(s, prefix) == Len(s) >= Len(prefix) /\ SubSeq(s, 1, Len(prefix)) = prefix

\* The qualified name a method call's identifier is to start with: module,
\* class name (with the string form in parentheses when it is no default
\* representation), function name, then "/".
QualifiedName(recv) ==
    Method.module \o <<".">> \o recv.class_name
    \o (IF \E i \in 1..Len(recv.str) : recv.str[i] = ObjectAt
        THEN <<>> ELSE <<"(">> \o recv.str \o <<")">>)
    \o <<".">> \o Method.name \o <<"/">>

\* C21 (as stated; the code violates it): whatever the filter, the identifier
\* of a method call starts with module.Class.function/ (Class followed by the
\* receiver's string form in parentheses when that is no default object
\* representation), and no key `self` appears in it.
ReceiverBecomesSegment ==
    (Built /\ "self" \in DOMAIN idq[1].call_args[1]) =>
        /\ StartsWith(idq[1].identifier[1], QualifiedName(idq[1].call_args[1]["self"]))
        /\ \A i \in 1..Len(idq[1].identifier[1]) : idq[1].identifier[1][i] # "self"

---------------------------------------------------------------------------
\* The frame of a call of the template-based Cacher (SpecTemplate).

\* The regular files of store f other than the one at path own.
OtherFiles(f, own) == [q \in (DOMAIN f.files) \ {own} |-> f.files[q]]

\* C22: whatever the mode and whether it returns or raises, a call leaves every
\* artifact other than the one at the path of its own identifier as it was: no
\* such file is created, removed or changed; a call that fails before it has
\* an identifier changes no file at all.
OtherArtifactsUntouched ==
    (cacher.state = "ok" /\ last.kind = "call") =>
        IF last.identifier = <<>> THEN fs.files = last.before.files
        ELSE OtherFiles(fs, LastPath) = OtherFiles(last.before, LastPath)

\* A call created, replaced or removed its own artifact in a store that holds
\* the artifact of another identifier.
OwnArtifactChangedBesideOther ==
    /\ cacher.state = "ok"
    /\ last.kind = "call"
    /\ last.identifier # <<>>
    /\ fs.files # last.before.files
    /\ DOMAIN OtherFiles(last.before, LastPath) # {}

====
